---- MODULE Spec2Model ----
(***************************************************************************)
(* Model of the glisp reader (interpreter/parser.go), the list utilities   *)
(* (interpreter/listutils.go) and the channel builtins make-chan, send!    *)
(* and <! of the channel extension.                                        *)
(*                                                                         *)
(* Values (Sexp) are tagged tuples whose first component is the variant.   *)
(* Tokens are pairs <<typ, str>>.  The lexer is a record holding the       *)
(* tokens not yet consumed and the flag it raises once it has reported     *)
(* end of stream.                                                          *)
(***************************************************************************)
EXTENDS Integers, Sequences, FiniteSets, TLC

----------------------------------------------------------------------------
(* Bounds of the model. *)

\* longest token stream fed to the reader in Spec
MaxToks == 4
\* longest token stream fed to the reader in SpecDotted
MaxDottedToks == 6
\* longest token stream fed to the reader in SpecSugar
MaxSugarToks == 5
\* longest element sequence of the lists of SpecList
MaxListLen == 3
\* largest size argument given to make-chan in SpecChan
MaxChanSize == 2
\* most values passed to send! in a run of SpecChan
MaxSends == 3
\* number of coroutines using the channel in SpecChan
NumProcs == 3

----------------------------------------------------------------------------
(* Value model. *)

SexpNull == <<"null">>
SexpEnd == <<"end">>
\* the zero value of a Sexp interface field (a struct field never assigned)
SexpZero == <<"zero">>
SexpPair(head, tail) == <<"pair", head, tail>>
SexpArray(arr) == <<"array", arr>>
SexpInt(i) == <<"int", i>>
SexpBool(b) == <<"bool", b>>
SexpChar(c) == <<"char", c>>
SexpStr(s) == <<"str", s>>
SexpFloat(f) == <<"float", f>>
MakeSymbol(name) == <<"symbol", name>>

IsPair(v) == v[1] = "pair"
Cons(a, b) == SexpPair(a, b)

RECURSIVE IsList(_)
IsList(expr) ==
  IF expr = SexpNull THEN TRUE
  ELSE IF IsPair(expr) THEN IsList(expr[3])
  ELSE FALSE

----------------------------------------------------------------------------
(* Errors. *)

\* An error is a tuple of its text and, for a failure of an applied function,
\* the argument it failed on.
Nil == <<"nil">>
ErrUnexpectedEnd == <<"unexpected end of input">>
ErrExtraValue == <<"extra value in dotted pair">>
ErrInvalidSyntax == <<"Invalid syntax, didn't know what to do with">>
ErrNumeric == <<"strconv.ParseInt: invalid syntax">>
ErrSource == <<"token source failure">>
ErrNotAList == <<"not a list">>

----------------------------------------------------------------------------
(* Token source. *)

Tok(typ, str) == <<typ, str>>
TokEnd == Tok("TokenEnd", "")
TokLParen == Tok("TokenLParen", "")
TokRParen == Tok("TokenRParen", "")
TokLSquare == Tok("TokenLSquare", "")
TokRSquare == Tok("TokenRSquare", "")
TokLCurly == Tok("TokenLCurly", "")
TokRCurly == Tok("TokenRCurly", "")
TokDot == Tok("TokenDot", "")
TokQuote == Tok("TokenQuote", "")
TokBacktick == Tok("TokenBacktick", "")
TokTilde == Tok("TokenTilde", "")
TokTildeAt == Tok("TokenTildeAt", "")
TokSymbol(name) == Tok("TokenSymbol", name)
\* the text of a numeric literal is its sequence of digits
TokDecimal(digits) == Tok("TokenDecimal", digits)
\* a position of the source at which the token source itself fails
TokFail == Tok("SourceFailure", "")

NewLexer(stream) == [tokens |-> stream, finished |-> FALSE]

\* peek(): non-consuming; at the end of the stream it reports the
\* end-of-stream token, and keeps reporting it.
PeekNextToken(lexer) ==
  IF lexer.tokens = <<>>
    THEN [tok |-> TokEnd, err |-> Nil, lexer |-> [lexer EXCEPT !.finished = TRUE]]
  ELSE IF Head(lexer.tokens) = TokFail
    THEN [tok |-> TokEnd, err |-> ErrSource, lexer |-> lexer]
  ELSE [tok |-> Head(lexer.tokens), err |-> Nil, lexer |-> lexer]

\* next(): returns what peek() returns and consumes it.
GetNextToken(lexer) ==
  LET p == PeekNextToken(lexer) IN
  IF p.err # Nil \/ p.tok = TokEnd THEN p
  ELSE [p EXCEPT !.lexer.tokens = Tail(lexer.tokens)]

----------------------------------------------------------------------------
(* Reader. *)

\* strconv.ParseInt(text, base, SexpIntSize) on a digit sequence; the
\* literals of the model are a few digits long, so the width is never
\* exceeded and only an invalid digit fails.
RECURSIVE DigitsValue(_, _, _)
DigitsValue(digits, base, acc) ==
  IF digits = <<>> THEN acc
  ELSE DigitsValue(Tail(digits), base, acc * base + Head(digits))

ParseInt(digits, base) ==
  IF digits = <<>> \/ \E i \in 1..Len(digits) : digits[i] >= base
    THEN [i |-> 0, err |-> ErrNumeric]
  ELSE [i |-> DigitsValue(digits, base, 0), err |-> Nil]

RECURSIVE MakeList(_)
MakeList(expressions) ==
  IF Len(expressions) = 0 THEN SexpNull
  ELSE Cons(expressions[1], MakeList(Tail(expressions)))

Ret(val, err, lexer) == [val |-> val, err |-> err, lexer |-> lexer]

RECURSIVE ParseExpression(_)
RECURSIVE ParseList(_)
RECURSIVE ParseArrayLoop(_, _)
RECURSIVE ParseHashLoop(_, _)

\* the dotted branch without the check of the closing paren
MutParseDottedTail(head, lexer) ==
  LET tail == ParseExpression(GetNextToken(lexer).lexer) IN
  IF tail.err # Nil THEN Ret(SexpNull, tail.err, tail.lexer)
  ELSE
    LET c == GetNextToken(tail.lexer) IN
    IF c.err # Nil THEN Ret(SexpNull, c.err, c.lexer)
    ELSE Ret(SexpPair(head, tail.val), Nil, c.lexer)

\* the branch of ParseList taken when a dot follows the head: lexer still
\* holds the dot
ParseDottedTail(head, lexer) ==
  \* eat up the dot
  LET tail == ParseExpression(GetNextToken(lexer).lexer) IN
  IF tail.err # Nil THEN Ret(SexpNull, tail.err, tail.lexer)
  ELSE
    \* eat up the end paren
    LET c == GetNextToken(tail.lexer) IN
    IF c.err # Nil THEN Ret(SexpNull, c.err, c.lexer)
    \* make sure it was actually an end paren
    ELSE IF c.tok[1] # "TokenRParen"
      THEN Ret(SexpNull, ErrExtraValue, c.lexer)
    ELSE Ret(SexpPair(head, tail.val), Nil, c.lexer)

ParseList(lexer) ==
  LET p == PeekNextToken(lexer) IN
  IF p.err # Nil THEN Ret(SexpNull, p.err, p.lexer)
  ELSE IF p.tok[1] = "TokenEnd"
    THEN Ret(SexpEnd, ErrUnexpectedEnd, GetNextToken(p.lexer).lexer)
  ELSE IF p.tok[1] = "TokenRParen"
    THEN Ret(SexpNull, Nil, GetNextToken(p.lexer).lexer)
  ELSE
    LET expr == ParseExpression(p.lexer) IN
    IF expr.err # Nil THEN Ret(SexpNull, expr.err, expr.lexer)
    ELSE
      LET q == PeekNextToken(expr.lexer) IN
      IF q.err # Nil THEN Ret(SexpNull, q.err, q.lexer)
      ELSE IF q.tok[1] = "TokenDot" THEN ParseDottedTail(expr.val, q.lexer)
      ELSE
        LET rest == ParseList(q.lexer) IN
        IF rest.err # Nil
          THEN Ret(SexpPair(expr.val, SexpZero), rest.err, rest.lexer)
        ELSE Ret(SexpPair(expr.val, rest.val), Nil, rest.lexer)

\* the loop of ParseArray, arr being the elements accumulated so far
ParseArrayLoop(lexer, arr) ==
  LET p == PeekNextToken(lexer) IN
  IF p.err # Nil THEN Ret(SexpEnd, p.err, p.lexer)
  ELSE IF p.tok[1] = "TokenEnd" THEN Ret(SexpEnd, ErrUnexpectedEnd, p.lexer)
  ELSE IF p.tok[1] = "TokenRSquare"
    THEN Ret(SexpArray(arr), Nil, GetNextToken(p.lexer).lexer)
  ELSE
    LET expr == ParseExpression(p.lexer) IN
    IF expr.err # Nil THEN Ret(SexpNull, expr.err, expr.lexer)
    ELSE ParseArrayLoop(expr.lexer, Append(arr, expr.val))

ParseArray(lexer) == ParseArrayLoop(lexer, <<>>)

\* the loop of ParseHash, arr being the elements accumulated so far
ParseHashLoop(lexer, arr) ==
  LET p == PeekNextToken(lexer) IN
  IF p.err # Nil THEN Ret(SexpEnd, p.err, p.lexer)
  ELSE IF p.tok[1] = "TokenEnd" THEN Ret(SexpEnd, ErrUnexpectedEnd, p.lexer)
  ELSE IF p.tok[1] = "TokenRCurly"
    THEN Ret(SexpPair(MakeSymbol("hash"), MakeList(arr)), Nil,
             GetNextToken(p.lexer).lexer)
  ELSE
    LET expr == ParseExpression(p.lexer) IN
    IF expr.err # Nil THEN Ret(SexpNull, expr.err, expr.lexer)
    ELSE ParseHashLoop(expr.lexer, Append(arr, expr.val))

ParseHash(lexer) == ParseHashLoop(lexer, <<>>)

\* the wrapping without the terminating Null
MutParseQuoted(name, lexer) ==
  LET expr == ParseExpression(lexer) IN
  IF expr.err # Nil THEN Ret(SexpNull, expr.err, expr.lexer)
  ELSE Ret(Cons(MakeSymbol(name), expr.val), Nil, expr.lexer)

\* the four quote markers: parse one expression and wrap it
ParseQuoted(name, lexer) ==
  LET expr == ParseExpression(lexer) IN
  IF expr.err # Nil THEN Ret(SexpNull, expr.err, expr.lexer)
  ELSE Ret(MakeList(<<MakeSymbol(name), expr.val>>), Nil, expr.lexer)

\* the integer literals: convert the text in the radix of the token
ParseRadix(str, base, lexer) ==
  LET n == ParseInt(str, base) IN
  IF n.err # Nil THEN Ret(SexpNull, n.err, lexer)
  ELSE Ret(SexpInt(n.i), Nil, lexer)

ParseExpression(lexer) ==
  LET t == GetNextToken(lexer)
      tok == t.tok
      lx == t.lexer
  IN
  IF t.err # Nil THEN Ret(SexpEnd, t.err, lx)
  ELSE CASE tok[1] = "TokenLParen" -> ParseList(lx)
         [] tok[1] = "TokenLSquare" -> ParseArray(lx)
         [] tok[1] = "TokenLCurly" -> ParseHash(lx)
         [] tok[1] = "TokenQuote" -> ParseQuoted("quote", lx)
         [] tok[1] = "TokenBacktick" -> ParseQuoted("syntax-quote", lx)
         [] tok[1] = "TokenTilde" -> ParseQuoted("unquote", lx)
         [] tok[1] = "TokenTildeAt" -> ParseQuoted("unquote-splicing", lx)
         [] tok[1] = "TokenSymbol" -> Ret(MakeSymbol(tok[2]), Nil, lx)
         [] tok[1] = "TokenBool" -> Ret(SexpBool(tok[2] = "true"), Nil, lx)
         [] tok[1] = "TokenDecimal" -> ParseRadix(tok[2], 10, lx)
         [] tok[1] = "TokenHex" -> ParseRadix(tok[2], 16, lx)
         [] tok[1] = "TokenOct" -> ParseRadix(tok[2], 8, lx)
         [] tok[1] = "TokenBinary" -> ParseRadix(tok[2], 2, lx)
         [] tok[1] = "TokenChar" -> Ret(SexpChar(tok[2][1]), Nil, lx)
         [] tok[1] = "TokenString" -> Ret(SexpStr(tok[2]), Nil, lx)
         [] tok[1] = "TokenFloat" -> Ret(SexpFloat(tok[2]), Nil, lx)
         [] tok[1] = "TokenEnd" -> Ret(SexpEnd, Nil, lx)
         [] OTHER -> Ret(SexpNull, ErrInvalidSyntax, lx)

----------------------------------------------------------------------------
(* List utilities. *)

\* the loop of ListToArray
RECURSIVE ListToArrayLoop(_, _)
ListToArrayLoop(expr, arr) ==
  IF expr # SexpNull
    THEN ListToArrayLoop(expr[3], Append(arr, expr[2]))
  ELSE arr

\* ListToArray without the IsList check, stopping at the first non-pair
RECURSIVE MutListToArrayLoop(_, _)
MutListToArrayLoop(expr, arr) ==
  IF IsPair(expr)
    THEN MutListToArrayLoop(expr[3], Append(arr, expr[2]))
  ELSE arr

MutListToArray(expr) == [arr |-> MutListToArrayLoop(expr, <<>>), err |-> Nil]

ListToArray(expr) ==
  IF ~IsList(expr) THEN [arr |-> <<>>, err |-> ErrNotAList]
  ELSE [arr |-> ListToArrayLoop(expr, <<>>), err |-> Nil]

\* env.Apply(fun, [x]) for a user function that fails on the arguments in
\* fun.fails and otherwise returns a value built from its argument
ApplyResult(x) == SexpArray(<<x>>)
ApplyFailure(x) == <<"function failed", x>>
Apply(fun, x) ==
  IF x \in fun.fails THEN [val |-> SexpNull, err |-> ApplyFailure(x)]
  ELSE [val |-> ApplyResult(x), err |-> Nil]

RECURSIVE MapList(_, _, _)

\* MapList mapping the tail before the head
MutMapList(fun, expr, log) ==
  IF expr = SexpNull THEN [val |-> SexpNull, err |-> Nil, log |-> log]
  ELSE IF ~IsPair(expr) THEN [val |-> SexpNull, err |-> ErrNotAList, log |-> log]
  ELSE
    LET tail == MapList(fun, expr[3], log)
        head == Apply(fun, expr[2])
        log1 == Append(tail.log, expr[2])
    IN
    IF tail.err # Nil THEN [val |-> SexpNull, err |-> tail.err, log |-> tail.log]
    ELSE IF head.err # Nil THEN [val |-> SexpNull, err |-> head.err, log |-> log1]
    ELSE [val |-> SexpPair(head.val, tail.val), err |-> Nil, log |-> log1]

\* log is the sequence of arguments the function has been applied to so far
MapList(fun, expr, log) ==
  IF expr = SexpNull THEN [val |-> SexpNull, err |-> Nil, log |-> log]
  ELSE IF ~IsPair(expr) THEN [val |-> SexpNull, err |-> ErrNotAList, log |-> log]
  ELSE
    LET head == Apply(fun, expr[2])
        log1 == Append(log, expr[2])
    IN
    IF head.err # Nil THEN [val |-> SexpNull, err |-> head.err, log |-> log1]
    ELSE
      LET tail == MapList(fun, expr[3], log1) IN
      IF tail.err # Nil THEN [val |-> SexpNull, err |-> tail.err, log |-> tail.log]
      ELSE [val |-> SexpPair(head.val, tail.val), err |-> Nil, log |-> tail.log]

RECURSIVE ConcatList(_, _)

\* ConcatList taking any tail that is not a pair for the end of a
MutConcatList(a, b) ==
  IF ~IsList(b) THEN [val |-> SexpNull, err |-> ErrNotAList]
  ELSE IF IsPair(a[3]) THEN
    LET newtail == ConcatList(a[3], b) IN
    IF newtail.err # Nil THEN [val |-> SexpNull, err |-> newtail.err]
    ELSE [val |-> Cons(a[2], newtail.val), err |-> Nil]
  ELSE [val |-> Cons(a[2], b), err |-> Nil]

ConcatList(a, b) ==
  IF ~IsList(b) THEN [val |-> SexpNull, err |-> ErrNotAList]
  ELSE IF a[3] = SexpNull THEN [val |-> Cons(a[2], b), err |-> Nil]
  ELSE IF IsPair(a[3]) THEN
    LET newtail == ConcatList(a[3], b) IN
    IF newtail.err # Nil THEN [val |-> SexpNull, err |-> newtail.err]
    ELSE [val |-> Cons(a[2], newtail.val), err |-> Nil]
  ELSE [val |-> SexpNull, err |-> ErrNotAList]

----------------------------------------------------------------------------
(* Program loader: the state of one run of ParseTokens over a stream. *)

VARIABLES
  stream,       \* the tokens the token source will deliver
  pc,           \* "lexing": stream being supplied; "parsing": inside the
                \* loop of ParseTokens; "done": ParseTokens has returned
  lexer,        \* the lexer ParseTokens reads
  expressions,  \* the slice ParseTokens accumulates and returns
  err,          \* the error ParseTokens returns
  calls         \* history: the result of every ParseExpression call of the loop

readerVars == <<stream, pc, lexer, expressions, err, calls>>

VARIABLES
  lop,          \* the list utility last called ("none" before the first call)
  larg,         \* its arguments
  lres          \* what it returned

listVars == <<lop, larg, lres>>

VARIABLES
  channel,      \* the channel make-chan created: capacity, buffer and the
                \* queues of blocked senders and receivers
  chanErr,      \* the error a channel builtin returned; an error aborts
                \* the evaluation, and the model follows the run no further
  status,       \* per coroutine: "ready", "sending" (blocked in send!),
                \* "receiving" (blocked in <!)
  nsent,        \* per coroutine: how many values it has passed to send!
  sent,         \* history: the values passed to send!, in the order the
                \* sends reached the channel
  received      \* history: the values <! returned, in the order it returned

chanVars == <<channel, chanErr, status, nsent, sent, received>>

vars == <<readerVars, listVars, chanVars>>

Procs == 1..NumProcs

ReaderInit ==
  /\ stream = <<>>
  /\ pc = "lexing"
  /\ lexer = NewLexer(<<>>)
  /\ expressions = <<>>
  /\ err = Nil
  /\ calls = <<>>

ListInit ==
  /\ lop = "none"
  /\ larg = <<>>
  /\ lres = <<>>

NoChannel == [made |-> FALSE, sized |-> FALSE, cap |-> 0,
              buf |-> <<>>, sendq |-> <<>>, recvq |-> <<>>]

ChanInit ==
  /\ channel = NoChannel
  /\ chanErr = Nil
  /\ status = [p \in Procs |-> "ready"]
  /\ nsent = [p \in Procs |-> 0]
  /\ sent = <<>>
  /\ received = <<>>

Init == ReaderInit /\ ListInit /\ ChanInit

\* the source supplies one more token before parsing starts
Feed(tokens, max) ==
  /\ pc = "lexing"
  /\ Len(stream) < max
  /\ \E t \in tokens : stream' = Append(stream, t)
  /\ UNCHANGED <<pc, lexer, expressions, err, calls, listVars, chanVars>>

\* ParseTokens is entered: expressions := make(...), parser := Parser{lexer, env}
ParseTokensEnter ==
  /\ pc = "lexing"
  /\ pc' = "parsing"
  /\ lexer' = NewLexer(stream)
  /\ expressions' = <<>>
  /\ UNCHANGED <<stream, err, calls, listVars, chanVars>>

\* the loop body with the append moved before the error check
MutParseTokensLoop(expr) ==
  /\ lexer' = expr.lexer
  /\ calls' = Append(calls, [val |-> expr.val, err |-> expr.err])
  /\ expressions' = IF expr.val = SexpEnd THEN expressions
                    ELSE Append(expressions, expr.val)
  /\ err' = expr.err
  /\ pc' = IF expr.err # Nil \/ expr.val = SexpEnd THEN "done" ELSE pc
  /\ UNCHANGED <<stream, listVars, chanVars>>

\* one iteration of the loop of ParseTokens, expr being what ParseExpression
\* returned
ParseTokensLoop(expr) ==
  /\ lexer' = expr.lexer
  /\ calls' = Append(calls, [val |-> expr.val, err |-> expr.err])
  /\ IF expr.err # Nil
       THEN /\ err' = expr.err
            /\ pc' = "done"
            /\ UNCHANGED expressions
     ELSE IF expr.val = SexpEnd
       THEN /\ pc' = "done"
            /\ UNCHANGED <<expressions, err>>
     ELSE /\ expressions' = Append(expressions, expr.val)
          /\ UNCHANGED <<pc, err>>
  /\ UNCHANGED <<stream, listVars, chanVars>>

ParseTokensStep ==
  /\ pc = "parsing"
  /\ ParseTokensLoop(ParseExpression(lexer))

\* Spec: every token class that steers the reader, one literal, one symbol
\* and a failing source.
ReaderTokens ==
  { TokLParen, TokRParen, TokLSquare, TokRSquare, TokLCurly, TokRCurly,
    TokDot, TokQuote, TokDecimal(<<1>>), TokSymbol("x"), TokFail }

FeedReader == Feed(ReaderTokens, MaxToks)

Next == FeedReader \/ ParseTokensEnter \/ ParseTokensStep

Spec == Init /\ [][Next]_vars

\* SpecDotted: longer streams over parens, the dot and two literals.
DottedTokens ==
  { TokLParen, TokRParen, TokDot, TokDecimal(<<1>>), TokDecimal(<<2>>) }

FeedDotted == Feed(DottedTokens, MaxDottedToks)

NextDotted == FeedDotted \/ ParseTokensEnter \/ ParseTokensStep

SpecDotted == Init /\ [][NextDotted]_vars

\* SpecSugar: the hash literal, the four quote markers, lists and a literal.
SugarTokens ==
  { TokLCurly, TokRCurly, TokLParen, TokRParen, TokQuote, TokBacktick,
    TokTilde, TokTildeAt, TokDecimal(<<1>>) }

FeedSugar == Feed(SugarTokens, MaxSugarToks)

NextSugar == FeedSugar \/ ParseTokensEnter \/ ParseTokensStep

SpecSugar == Init /\ [][NextSugar]_vars

----------------------------------------------------------------------------
(* The list utilities called on the values of a bounded universe. *)

SeqsUpTo(S, n) == UNION { [1..k -> S] : k \in 0..n }

\* the pair chain e1 ... en with final tail t
RECURSIVE Chain(_, _)
Chain(es, t) == IF es = <<>> THEN t ELSE SexpPair(Head(es), Chain(Tail(es), t))

ListElems == { SexpInt(1), SexpInt(2), SexpNull }
ListTails == { SexpNull, SexpInt(3) }

\* proper lists (Null included), dotted lists and one atom
ListValues ==
  { Chain(es, t) : es \in SeqsUpTo(ListElems, MaxListLen), t \in ListTails }

\* user functions: one per set of arguments it fails on
ListFuns == { [fails |-> F] : F \in SUBSET ListElems }

MakeListOp ==
  /\ lop = "none"
  /\ \E s \in SeqsUpTo(ListElems, MaxListLen) :
    /\ lop' = "MakeList"
    /\ larg' = <<s>>
    /\ lres' = MakeList(s)
    /\ UNCHANGED <<readerVars, chanVars>>

ListToArrayOp ==
  /\ lop = "none"
  /\ \E v \in ListValues :
    /\ lop' = "ListToArray"
    /\ larg' = <<v>>
    /\ lres' = ListToArray(v)
    /\ UNCHANGED <<readerVars, chanVars>>

MapListOp ==
  /\ lop = "none"
  /\ \E fun \in ListFuns, v \in ListValues :
    /\ lop' = "MapList"
    /\ larg' = <<fun, v>>
    /\ lres' = MapList(fun, v, <<>>)
    /\ UNCHANGED <<readerVars, chanVars>>

\* the first argument of ConcatList is a SexpPair
ConcatListOp ==
  /\ lop = "none"
  /\ \E a \in { v \in ListValues : IsPair(v) }, b \in ListValues :
    /\ lop' = "ConcatList"
    /\ larg' = <<a, b>>
    /\ lres' = ConcatList(a, b)
    /\ UNCHANGED <<readerVars, chanVars>>

\* the token of a literal or of the empty list, as the lexer delivers it
ElemTokens(e) == IF e = SexpNull THEN <<TokLParen, TokRParen>>
                 ELSE <<TokDecimal(<<e[2]>>)>>

RECURSIVE Spelling(_)
Spelling(es) == IF es = <<>> THEN <<>> ELSE ElemTokens(Head(es)) \o Spelling(Tail(es))

\* the text '(e1 ... en)' or, with a tail t that is not Null, '(e1 ... en . t)'
ListText(es, t) ==
  <<TokLParen>> \o Spelling(es)
    \o (IF t = SexpNull THEN <<>> ELSE <<TokDot>> \o ElemTokens(t))
    \o <<TokRParen>>

\* the reader is run on the text of a list
ReadListOp ==
  /\ lop = "none"
  /\ \E es \in SeqsUpTo(ListElems, MaxListLen), t \in ListTails :
    /\ t # SexpNull => es # <<>>
    /\ lop' = "Read"
    /\ larg' = <<es, t>>
    /\ lres' = LET r == ParseExpression(NewLexer(ListText(es, t)))
               IN  [val |-> r.val, err |-> r.err]
    /\ UNCHANGED <<readerVars, chanVars>>

\* the caller has taken the result; the next call can be made
ListReturn ==
  /\ lop # "none"
  /\ lop' = "none"
  /\ larg' = <<>>
  /\ lres' = <<>>
  /\ UNCHANGED <<readerVars, chanVars>>

NextList ==
  MakeListOp \/ ListToArrayOp \/ MapListOp \/ ConcatListOp \/ ReadListOp
    \/ ListReturn

SpecList == Init /\ [][NextList]_vars

----------------------------------------------------------------------------
(* Channels: make-chan, send! and <! called by coroutines. *)

ErrWrongNargs == <<"wrong number of arguments">>
ErrMustBeInt == <<"argument to make-chan must be int">>
ErrMustBeChannel == <<"argument 0 must be channel">>

\* the channel value handed to the builtins (the model has one channel)
SexpChannel == <<"chan">>

\* make(chan glisp.Sexp, size): an empty channel of that capacity
MakeChan(size, sized) ==
  [made |-> TRUE, sized |-> sized, cap |-> size,
   buf |-> <<>>, sendq |-> <<>>, recvq |-> <<>>]

\* make-chan creating a channel that buffers one value when no size is given
MutMakeChanFunction(args) ==
  IF Len(args) > 1 THEN [chan |-> NoChannel, err |-> ErrWrongNargs]
  ELSE IF Len(args) = 1 /\ args[1][1] # "int"
    THEN [chan |-> NoChannel, err |-> ErrMustBeInt]
  ELSE [chan |-> MakeChan(IF Len(args) = 1 THEN args[1][2] ELSE 1, Len(args) = 1),
        err |-> Nil]

MakeChanFunction(args) ==
  IF Len(args) > 1 THEN [chan |-> NoChannel, err |-> ErrWrongNargs]
  ELSE IF Len(args) = 1 /\ args[1][1] # "int"
    THEN [chan |-> NoChannel, err |-> ErrMustBeInt]
  ELSE [chan |-> MakeChan(IF Len(args) = 1 THEN args[1][2] ELSE 0, Len(args) = 1),
        err |-> Nil]

\* the argument lists make-chan is called with
MakeChanArgs ==
  { <<>> } \cup { <<SexpInt(n)>> : n \in 0..MaxChanSize }
    \cup { <<SexpNull>>, <<SexpInt(1), SexpInt(1)>> }

\* (make-chan ...) is evaluated, once
MakeChanCall ==
  /\ ~channel.made
  /\ chanErr = Nil
  /\ \E args \in MakeChanArgs :
       LET r == MakeChanFunction(args) IN
       /\ channel' = r.chan
       /\ chanErr' = r.err
  /\ UNCHANGED <<status, nsent, sent, received, readerVars, listVars>>

\* what ChanTxFunction does before it touches the channel: the error it
\* returns, or the channel operation it goes on to
ChanTxFunction(name, args) ==
  IF Len(args) < 1 THEN [op |-> "none", err |-> ErrWrongNargs]
  ELSE IF args[1] # SexpChannel THEN [op |-> "none", err |-> ErrMustBeChannel]
  ELSE IF name = "send!"
    THEN IF Len(args) # 2 THEN [op |-> "none", err |-> ErrWrongNargs]
         ELSE [op |-> "send", err |-> Nil]
  ELSE [op |-> "recv", err |-> Nil]

\* channel <- v by coroutine p: hand v to the longest-waiting receiver, else
\* buffer it if there is room, else block in the queue of senders
ChanSend(p, v) ==
  /\ sent' = Append(sent, v)
  /\ nsent' = [nsent EXCEPT ![p] = @ + 1]
  /\ IF channel.recvq # <<>>
       THEN /\ channel' = [channel EXCEPT !.recvq = Tail(@)]
            /\ status' = [status EXCEPT ![Head(channel.recvq)] = "ready"]
            /\ received' = Append(received, v)
     ELSE IF Len(channel.buf) < channel.cap
       THEN /\ channel' = [channel EXCEPT !.buf = Append(@, v)]
            /\ UNCHANGED <<status, received>>
     ELSE /\ channel' = [channel EXCEPT !.sendq = Append(@, [proc |-> p, val |-> v])]
          /\ status' = [status EXCEPT ![p] = "sending"]
          /\ UNCHANGED received

\* <-channel by coroutine p: take the oldest buffered value and let the
\* longest-waiting sender refill the buffer, else take the value of the
\* longest-waiting sender, else block in the queue of receivers
ChanRecv(p) ==
  /\ UNCHANGED <<sent, nsent>>
  /\ IF channel.buf # <<>>
       THEN /\ received' = Append(received, Head(channel.buf))
            /\ IF channel.sendq # <<>>
                 THEN /\ channel' = [channel EXCEPT
                                       !.buf = Append(Tail(@), Head(channel.sendq).val),
                                       !.sendq = Tail(@)]
                      /\ status' = [status EXCEPT ![Head(channel.sendq).proc] = "ready"]
               ELSE /\ channel' = [channel EXCEPT !.buf = Tail(@)]
                    /\ UNCHANGED status
     ELSE IF channel.sendq # <<>>
       THEN /\ received' = Append(received, Head(channel.sendq).val)
            /\ channel' = [channel EXCEPT !.sendq = Tail(@)]
            /\ status' = [status EXCEPT ![Head(channel.sendq).proc] = "ready"]
     ELSE /\ channel' = [channel EXCEPT !.recvq = Append(@, p)]
          /\ status' = [status EXCEPT ![p] = "receiving"]
          /\ UNCHANGED received

\* the value coroutine p passes to its next send!
NextValue(p) == SexpInt(10 * p + nsent[p])

\* coroutine p evaluates (send! ch v)
SendCall(p) ==
  /\ channel.made
  /\ chanErr = Nil
  /\ status[p] = "ready"
  /\ Len(sent) < MaxSends
  /\ ChanTxFunction("send!", <<SexpChannel, NextValue(p)>>).op = "send"
  /\ ChanSend(p, NextValue(p))
  /\ UNCHANGED <<chanErr, readerVars, listVars>>

\* coroutine p evaluates (<! ch)
RecvCall(p) ==
  /\ channel.made
  /\ chanErr = Nil
  /\ status[p] = "ready"
  /\ Len(received) + Len(channel.recvq) < MaxSends
  /\ ChanTxFunction("<!", <<SexpChannel>>).op = "recv"
  /\ ChanRecv(p)
  /\ UNCHANGED <<chanErr, readerVars, listVars>>

\* the argument lists that make send! and <! return an error
BadTxArgs == { <<>>, <<SexpNull>>, <<SexpChannel>>, <<SexpNull, SexpInt(1)>> }

\* coroutine p calls send! or <! with arguments it rejects
BadTxCall(p) ==
  /\ chanErr = Nil
  /\ status[p] = "ready"
  /\ \E name \in {"send!", "<!"}, args \in BadTxArgs :
       LET r == ChanTxFunction(name, args) IN
       /\ r.op = "none"
       /\ chanErr' = r.err
  /\ UNCHANGED <<channel, status, nsent, sent, received, readerVars, listVars>>

NextChan ==
  \/ MakeChanCall
  \/ \E p \in Procs : SendCall(p)
  \/ \E p \in Procs : RecvCall(p)
  \/ \E p \in Procs : BadTxCall(p)

SpecChan == Init /\ [][NextChan]_vars

----------------------------------------------------------------------------
(* Vocabulary of the reader claims. *)

IsAtomTok(t) == t[1] \in {"TokenDecimal", "TokenSymbol"}

\* the value an atom token of the model denotes (literals are one digit)
AtomOf(t) == IF t[1] = "TokenDecimal" THEN SexpInt(t[2][1]) ELSE MakeSymbol(t[2])

\* the first parse_expression call of the run has returned
FirstReturned == Len(calls) >= 1

\* the first call has returned and no other call has been made: lexer is the
\* lexer as that call left it
FirstJustReturned == Len(calls) = 1

\* the tokens the first call consumed
Consumed == SubSeq(stream, 1, Len(stream) - Len(lexer.tokens))

OpenTokens == {TokLParen, TokLSquare, TokLCurly}

\* End occurs as a Pair head, Pair tail or Array element inside v
RECURSIVE HasEndInside(_)
HasEndInside(v) ==
  IF v[1] = "pair"
    THEN v[2] = SexpEnd \/ v[3] = SexpEnd \/ HasEndInside(v[2]) \/ HasEndInside(v[3])
  ELSE IF v[1] = "array"
    THEN \E i \in 1..Len(v[2]) : v[2][i] = SexpEnd \/ HasEndInside(v[2][i])
  ELSE FALSE

----------------------------------------------------------------------------
(* C1 *)

\* stream is '(' e1 ... en '.' or '(' e1 ... en '.' t with n >= 1 atoms: the
\* end of the stream is met after a dot
EndAfterDot ==
  /\ Len(stream) >= 3
  /\ stream[1] = TokLParen
  /\ \E d \in {Len(stream) - 1, Len(stream)} :
       /\ d >= 3
       /\ stream[d] = TokDot
       /\ \A i \in 2..(d - 1) : IsAtomTok(stream[i])
       /\ d < Len(stream) => IsAtomTok(stream[Len(stream)])

\* C1: when the end of the stream is met after a dot inside a list, either in
\* place of the tail or in place of the closing paren, parse_expression fails
\* with UnexpectedEnd.
C1_EndAfterDotIsUnexpectedEnd ==
  (FirstReturned /\ EndAfterDot) => calls[1].err = ErrUnexpectedEnd

----------------------------------------------------------------------------
(* C2 *)

\* C2: End never occurs inside a value the reader returns: no successful
\* result of parse_expression and no element of the result of parse_all has
\* End as a Pair head, a Pair tail or an Array element.
C2_EndNeverInsideValue ==
  /\ \A i \in 1..Len(calls) : calls[i].err = Nil => ~HasEndInside(calls[i].val)
  /\ \A i \in 1..Len(expressions) :
       expressions[i] # SexpEnd /\ ~HasEndInside(expressions[i])

----------------------------------------------------------------------------
(* C3 *)

\* C3: a parse_expression call that starts at an open delimiter and is told
\* by the token source that the stream has ended (so the end came before the
\* matching closer, at whatever depth) fails with UnexpectedEnd; on the empty
\* stream it returns bare End without failure.
C3_UnterminatedIsUnexpectedEnd ==
  FirstJustReturned =>
    /\ (stream # <<>> /\ stream[1] \in OpenTokens /\ lexer.finished)
         => calls[1].err = ErrUnexpectedEnd
    /\ stream = <<>> => calls[1] = [val |-> SexpEnd, err |-> Nil]

----------------------------------------------------------------------------
(* C4 *)

\* C4: when parse_all has returned, every call but the last succeeded with a
\* form, the last one returned End or failed, the result is exactly the forms
\* of the calls before the last, in call order, and the failure is that of
\* the last call; the lexer only ever moved forward in the stream; a stream
\* of atoms yields the atoms in source order; the empty stream yields the
\* empty sequence and no failure.
C4_ParseAllStopsAtFirstFailure ==
  /\ \E k \in 0..Len(stream) : lexer.tokens = SubSeq(stream, k + 1, Len(stream))
  /\ pc = "done" =>
       LET n == Len(calls) IN
       /\ n >= 1
       /\ \A i \in 1..(n - 1) : calls[i].err = Nil /\ calls[i].val # SexpEnd
       /\ calls[n].err # Nil \/ calls[n].val = SexpEnd
       /\ expressions = [i \in 1..(n - 1) |-> calls[i].val]
       /\ err = calls[n].err
       /\ (\A i \in 1..Len(stream) : IsAtomTok(stream[i]))
            => /\ expressions = [i \in 1..Len(stream) |-> AtomOf(stream[i])]
               /\ err = Nil
       /\ stream = <<>> => expressions = <<>> /\ err = Nil

\* two forms were parsed and the third call failed
C4_Witness ==
  /\ pc = "done"
  /\ Len(expressions) = 2
  /\ err # Nil
  /\ Len(calls) = 3

----------------------------------------------------------------------------
(* C5 *)

\* stream starts '(' e1 ... en '.' t X with n >= 1, the e's and t atoms, the
\* dot at position d and X a token of the stream
DottedAt(d) ==
  /\ d >= 3
  /\ d + 2 <= Len(stream)
  /\ stream[1] = TokLParen
  /\ stream[d] = TokDot
  /\ \A i \in 2..(d - 1) : IsAtomTok(stream[i])
  /\ IsAtomTok(stream[d + 1])

\* C5: in '(' e1 ... en '.' t X, when X is the close-paren the result is the
\* chain Pair{e1, ... Pair{en, t}}; when X is any other token of the stream
\* the call fails with "extra value in dotted pair".
C5_DottedTailThenCloseParen ==
  \A d \in 1..Len(stream) :
    (FirstReturned /\ DottedAt(d)) =>
      IF stream[d + 2] = TokRParen
        THEN calls[1] =
               [val |-> Chain([i \in 1..(d - 2) |-> AtomOf(stream[i + 1])],
                              AtomOf(stream[d + 1])),
                err |-> Nil]
      ELSE calls[1].err = ErrExtraValue

\* '(1 2 . 1 2' has been read: two elements, a tail and an extra value
C5_Witness ==
  /\ FirstReturned
  /\ DottedAt(4)
  /\ stream[5] # stream[6]
  /\ IsAtomTok(stream[6])
  /\ calls[1].err = ErrExtraValue

----------------------------------------------------------------------------
(* C8 *)

QuoteName(t) ==
  CASE t = TokQuote -> "quote"
    [] t = TokBacktick -> "syntax-quote"
    [] t = TokTilde -> "unquote"
    [] t = TokTildeAt -> "unquote-splicing"

QuoteTokens == {TokQuote, TokBacktick, TokTilde, TokTildeAt}

\* the explicit spelling '(' name body ')'
Explicit(name, body) ==
  ParseExpression(NewLexer(<<TokLParen, TokSymbol(name)>> \o body \o <<TokRParen>>))

\* C8: a hash literal the reader accepts yields the tree of '(hash e1 ... en)',
\* a pair of the symbol hash and a proper list, whatever the parity of n; a
\* quote marker followed by one expression X (the stream does not end inside
\* it) yields the tree of '(name X)', the two-element proper list of the
\* marker's symbol and X.
C8_SugarIsExplicitCall ==
  (FirstJustReturned /\ stream # <<>> /\ calls[1].err = Nil) =>
    /\ stream[1] = TokLCurly =>
         LET body == SubSeq(Consumed, 2, Len(Consumed) - 1)
             call == Explicit("hash", body)
         IN /\ Consumed[Len(Consumed)] = TokRCurly
            /\ call.err = Nil
            /\ call.val = calls[1].val
            /\ calls[1].val[1] = "pair"
            /\ calls[1].val[2] = MakeSymbol("hash")
            /\ IsList(calls[1].val[3])
    /\ (stream[1] \in QuoteTokens /\ ~lexer.finished) =>
         LET body == Tail(Consumed)
             call == Explicit(QuoteName(stream[1]), body)
             X == ParseExpression(NewLexer(body))
         IN /\ call.err = Nil
            /\ call.val = calls[1].val
            /\ X.err = Nil
            /\ X.lexer.tokens = <<>>
            /\ calls[1].val =
                 SexpPair(MakeSymbol(QuoteName(stream[1])), SexpPair(X.val, SexpNull))

\* a hash literal with an odd number of elements has been read
C8_Witness ==
  /\ FirstJustReturned
  /\ calls[1].err = Nil
  /\ stream = <<TokLCurly, TokDecimal(<<1>>), TokDecimal(<<1>>), TokDecimal(<<1>>), TokRCurly>>
----------------------------------------------------------------------------
(* Vocabulary of the list claims. *)

\* the heads along the spine of v
RECURSIVE Heads(_)
Heads(v) == IF IsPair(v) THEN <<v[2]>> \o Heads(v[3]) ELSE <<>>

\* the value the spine of v ends in
RECURSIVE FinalTail(_)
FinalTail(v) == IF IsPair(v) THEN FinalTail(v[3]) ELSE v

\* v without its first n pairs
RECURSIVE Drop(_, _)
Drop(v, n) == IF n = 0 THEN v ELSE Drop(v[3], n - 1)

\* the positions of es at which fun fails
FailingAt(fun, es) == { i \in 1..Len(es) : es[i] \in fun.fails }

Min(S) == CHOOSE x \in S : \A y \in S : x <= y

----------------------------------------------------------------------------
(* C6 *)

\* C6: map_list applies f left to right and stops at the first failure: when
\* f fails first on the k-th element the result is that failure and f has
\* been applied exactly to elements 1..k, once each, in order; when f fails
\* on no element of a proper list the result is the list of f's results in
\* the same order and of the same length.
C6_MapListLeftToRight ==
  lop = "MapList" =>
    LET fun == larg[1]
        es == Heads(larg[2])
        F == FailingAt(fun, es)
    IN
    IF F # {}
      THEN /\ lres.err = ApplyFailure(es[Min(F)])
           /\ lres.log = SubSeq(es, 1, Min(F))
    ELSE IsList(larg[2]) =>
           /\ lres.err = Nil
           /\ IsList(lres.val)
           /\ Heads(lres.val) = [i \in 1..Len(es) |-> ApplyResult(es[i])]
           /\ lres.log = es

\* f failed on the second of three elements
C6_Witness ==
  /\ lop = "MapList"
  /\ Len(Heads(larg[2])) = 3
  /\ FailingAt(larg[1], Heads(larg[2])) = {2, 3}
  /\ lres.err = ApplyFailure(Heads(larg[2])[2])

----------------------------------------------------------------------------
(* C7 *)

\* C7: for proper lists a (non-empty) and b, concat_list returns a proper
\* list whose elements are a's followed by b's, whose length is the sum of
\* the lengths and whose segment after a's elements is b itself, and a still
\* has its elements; it fails with NotAList when b is not a list or when the
\* spine of a ends in a tail that is neither Null nor a Pair.
C7_ConcatListAppends ==
  lop = "ConcatList" =>
    LET a == larg[1]
        b == larg[2]
    IN
    IF IsList(a) /\ IsList(b)
      THEN /\ lres.err = Nil
           /\ IsList(lres.val)
           /\ Heads(lres.val) = Heads(a) \o Heads(b)
           /\ Len(Heads(lres.val)) = Len(Heads(a)) + Len(Heads(b))
           /\ Drop(lres.val, Len(Heads(a))) = b
           /\ ListToArray(a).arr = Heads(a)
    ELSE lres.err = ErrNotAList

\* a list of two elements was appended to a list of three
C7_Witness ==
  /\ lop = "ConcatList"
  /\ IsList(larg[1]) /\ Len(Heads(larg[1])) = 3
  /\ IsList(larg[2]) /\ Len(Heads(larg[2])) = 2
  /\ lres.err = Nil

----------------------------------------------------------------------------
(* C9 *)

\* C9: list_to_sequence inverts make_list (which maps the empty sequence to
\* Null); on a proper list it returns the elements, on a value whose chain
\* ends in a tail that is neither Null nor a Pair is_list is false and it
\* fails with NotAList returning no element; the reader's result for
\* '(e1 ... en)' is make_list of the elements, and its result for a dotted
\* list is not a list.
C9_ListToSequenceInvertsMakeList ==
  /\ lop = "MakeList" =>
       /\ ListToArray(lres) = [arr |-> larg[1], err |-> Nil]
       /\ larg[1] = <<>> => lres = SexpNull
  /\ lop = "ListToArray" =>
       IF FinalTail(larg[1]) = SexpNull
         THEN lres = [arr |-> Heads(larg[1]), err |-> Nil]
       ELSE /\ ~IsList(larg[1])
            /\ lres = [arr |-> <<>>, err |-> ErrNotAList]
  /\ lop = "Read" =>
       /\ lres.err = Nil
       /\ lres.val = Chain(larg[1], larg[2])
       /\ IF larg[2] = SexpNull
            THEN /\ lres.val = MakeList(larg[1])
                 /\ ListToArray(lres.val) = [arr |-> larg[1], err |-> Nil]
          ELSE /\ ~IsList(lres.val)
               /\ ListToArray(lres.val) = [arr |-> <<>>, err |-> ErrNotAList]

\* list_to_sequence was called on a dotted list of two elements
C9_Witness ==
  /\ lop = "ListToArray"
  /\ Len(Heads(larg[1])) = 2
  /\ FinalTail(larg[1]) = SexpInt(3)
  /\ lres.err = ErrNotAList
----------------------------------------------------------------------------
(* C10 *)

\* the values waiting in the channel, oldest first: the buffered ones, then
\* those of the blocked senders
Waiting == channel.buf \o [i \in 1..Len(channel.sendq) |-> channel.sendq[i].val]

\* first in, first out, each value once: what <! has returned, followed by
\* what waits in the channel, is what was passed to send!, in order
ChanFifo == sent = received \o Waiting

\* at most cap values are pending, and a coroutine is blocked in send! only
\* while the buffer is full and no receiver waits
ChanBounded ==
  /\ Len(channel.buf) <= channel.cap
  /\ \A p \in Procs :
       status[p] = "sending" <=> \E i \in 1..Len(channel.sendq) : channel.sendq[i].proc = p
  /\ channel.sendq # <<>> => Len(channel.buf) = channel.cap /\ channel.recvq = <<>>

\* C10 as stated: first in, first out; with a size argument at most that many
\* values pending and a further send! blocks; with no size argument send!
\* never blocks.
C10_Original ==
  /\ ChanFifo
  /\ channel.sized => ChanBounded
  /\ (channel.made /\ ~channel.sized) => \A p \in Procs : status[p] # "sending"

\* what holds of every state of the amended claim
ChanStateOK ==
  /\ ChanFifo
  /\ channel.made => ChanBounded
  /\ (channel.made /\ ~channel.sized) =>
       /\ channel.cap = 0
       /\ channel.buf = <<>>
       /\ Len(sent) = Len(received) + Len(channel.sendq)

\* a coroutine blocked in send! is released only by a step in which <!
\* returns a value
ReleasedByReceive ==
  \A p \in Procs :
    (status[p] = "sending" /\ status'[p] # "sending")
      => Len(received') = Len(received) + 1

\* C10 amended: first in, first out under every interleaving; with a size
\* argument n >= 0 at most n values are pending and send! blocks exactly
\* while n are pending and no receiver waits, until a <! takes a value; with
\* no size argument the channel has capacity 0: no value is ever pending, and
\* send! blocks unless a receiver is already waiting to take the value.
C10_FifoBoundedOrUnbuffered == []ChanStateOK /\ [][ReleasedByReceive]_vars

\* on a channel made with no size argument a coroutine is blocked in send!
\* while another's value has already been taken
C10_Witness ==
  /\ channel.made /\ ~channel.sized
  /\ \E p \in Procs : status[p] = "sending"
  /\ Len(received) >= 1
====
